---- MODULE Spec2Model ----
(***************************************************************************)
(* State machine of the exam session kept by App (src/src/App.tsx) and of  *)
(* the two provider calls of services/geminiService (src/unnamed/part_000).*)
(*                                                                         *)
(* Every event handler runs to its first await in one step; the code after *)
(* the await (try body, catch, finally and the statements that follow) runs*)
(* in one later step, when the provider call settles.  A handler closes    *)
(* over the examState of the render in which it was invoked, so a request  *)
(* in flight carries the values the handler read before the await.         *)
(*                                                                         *)
(* The loading overlay (App.tsx:211-221, 431-443) is drawn above the       *)
(* controls but disables none of them: a control that is rendered and not  *)
(* `disabled` can be activated (the focused button reacts to Enter/Space). *)
(* The guards of the actions are therefore the render conditions of the    *)
(* controls and the early returns of the handlers, nothing more.           *)
(***************************************************************************)
EXTENDS Bags, FiniteSets, Integers, Sequences, TLC

\* ------------------------------------------------------------------ bounds
\* QUESTIONS_PER_SET is 90 and BATCH_SIZE is 5 in the source; the model keeps
\* the code's arithmetic on them and scales the two values down.
QUESTIONS_PER_SET == 3
BATCH_SIZE == 2
\* the set-selection screen offers the sets 1..6 (App.tsx:186)
MaxSet == 2
\* provider calls that can be outstanding together
MaxPending == 2
\* provider calls issued in one behaviour
MaxFetches == 4

\* --------------------------------------------------------------- constants
NoSet == 0
NoTime == 0
\* Date.now() at the start of a session; the handlers never read the value
DateNow == 1

ProjectBasics == "Project Basics"
ProjectConstraints == "Project Constraints"
CommunicationAndChangeManagement == "Communication and Change Management"
ProjectToolsAndDocumentation == "Project Tools and Documentation"

ExamDomain ==
  {ProjectBasics, ProjectConstraints,
   CommunicationAndChangeManagement, ProjectToolsAndDocumentation}

\* option keys of a question
Keys == {"A", "B"}

AnalysisUnavailable == "Analysis unavailable."

NoResult == <<>>

VARIABLES
  currentSet,      \* examState.currentSet (NoSet for null)
  questions,       \* examState.questions
  currentIndex,    \* examState.currentIndex
  userAnswers,     \* examState.userAnswers: question id -> option key
  isFinished,      \* examState.isFinished
  startTime,       \* examState.startTime (NoTime for null)
  isLoading,
  showExplanation,
  finalResult,     \* NoResult for null, <<result>> otherwise
  isAnalyzing,
  pending,         \* bag of provider calls awaited by a handler
  fetches,         \* number of provider calls issued so far
  failedLoad       \* history: <<set, offset, count>> of the follow-up load that
                   \* threw at the current position (console.error, App.tsx:109),
                   \* <<>> once the position or the list has changed

examState == <<currentSet, questions, currentIndex, userAnswers, isFinished, startTime>>
uiState == <<isLoading, showExplanation, finalResult, isAnalyzing>>
envState == <<pending, fetches, failedLoad>>
vars == <<examState, uiState, envState>>

\* ------------------------------------------------------------ pure helpers
Min(a, b) == IF a < b THEN a ELSE b

\* Math.round(x) for x = (c / n) * 100 with n > 0
Round100(c, n) == (200 * c + n) \div (2 * n)

currentQuestionDefined == currentIndex + 1 \in DOMAIN questions
currentQuestion == questions[currentIndex + 1]
\* off by one: the last position taken to be QUESTIONS_PER_SET
isLastQuestion_OffByOne == currentIndex = QUESTIONS_PER_SET
isLastQuestion == currentIndex = QUESTIONS_PER_SET - 1

\* which of the three returns of App renders
Screen ==
  IF currentSet = NoSet THEN "select"
  ELSE IF isFinished /\ finalResult # NoResult THEN "result"
  ELSE "exam"

IsCorrect(q, answers) ==
  q.id \in DOMAIN answers /\ answers[q.id] = q.correctAnswer

correctCount(qs, answers) ==
  Cardinality({i \in DOMAIN qs : IsCorrect(qs[i], answers)})

\* the total of a domain counted over the correctly answered questions only
domainBreakdown_TotalOfCorrect(qs, answers) ==
  [domain \in ExamDomain |->
     [correct |-> Cardinality({i \in DOMAIN qs :
                     qs[i].domain = domain /\ IsCorrect(qs[i], answers)}),
      total   |-> Cardinality({i \in DOMAIN qs :
                     qs[i].domain = domain /\ IsCorrect(qs[i], answers)})]]

domainBreakdown(qs, answers) ==
  [domain \in ExamDomain |->
     [correct |-> Cardinality({i \in DOMAIN qs :
                     qs[i].domain = domain /\ IsCorrect(qs[i], answers)}),
      total   |-> Cardinality({i \in DOMAIN qs : qs[i].domain = domain})]]

\* the value finishExam passes to generateFinalAnalysis
result(qs, answers) ==
  [score |-> Round100(correctCount(qs, answers), Len(qs)),
   totalQuestions |-> Len(qs),
   domainBreakdown |-> domainBreakdown(qs, answers)]

\* --------------------------------------------------------------- provider
\* Question records, reduced to the fields the handlers read.  Identifiers are
\* unique (types.ts: id; the provider is trusted for it): a question is named
\* by the place it takes in the loaded list.
Question(i, d, k) == [id |-> i, domain |-> d, correctAnswer |-> k]

\* the question bank the provider answers from: the question that takes place
\* i of the list has the domain and the correct key of entry i (cyclically)
Bank ==
  <<[domain |-> ProjectBasics, correctAnswer |-> "A"],
    [domain |-> ProjectConstraints, correctAnswer |-> "B"],
    [domain |-> ProjectToolsAndDocumentation, correctAnswer |-> "A"]>>

BankQuestion(i) ==
  LET e == Bank[((i - 1) % Len(Bank)) + 1]
  IN Question(i, e.domain, e.correctAnswer)

\* the array of n well-formed questions with the identifiers first, first+1, ...
Array(n, first) == [j \in 1..n |-> BankQuestion(first + j - 1)]

\* what ai.models.generateContent can answer to a question request of `count`
QuestionResponses(count, first) ==
  {[kind |-> "reject", items |-> <<>>],
   [kind |-> "empty", items |-> <<>>],
   [kind |-> "unparseable", items |-> <<>>]}
  \cup {[kind |-> "array", items |-> Array(n, first)] :
          n \in 0..(IF count > 0 THEN count ELSE 0)}

\* generateQuestions after the await: JSON.parse(response.text || "[]"),
\* [] when the parse throws
generateQuestions(response) ==
  IF response.kind = "array" THEN response.items ELSE <<>>

AnalysisResponses ==
  {[kind |-> "reject", text |-> ""],
   [kind |-> "text", text |-> ""],
   [kind |-> "text", text |-> "analysis"]}

\* generateFinalAnalysis after the await: response.text || "Analysis unavailable."
generateFinalAnalysis(response) ==
  IF response.text = "" THEN AnalysisUnavailable ELSE response.text

\* retryOf is history: the arguments of the failed load this call retries
Request(kind, set, offset, count, nextIndex, res) ==
  [kind |-> kind, set |-> set, offset |-> offset, count |-> count,
   nextIndex |-> nextIndex, result |-> res, retryOf |-> <<>>]

CanIssue == fetches < MaxFetches /\ BagCardinality(pending) < MaxPending

Issue(r) ==
  /\ pending' = pending (+) SetToBag({r})
  /\ fetches' = fetches + 1

Settle(r) ==
  /\ pending' = pending (-) SetToBag({r})
  /\ fetches' = fetches

\* ------------------------------------------------------------------- Init
Init ==
  /\ currentSet = NoSet
  /\ questions = <<>>
  /\ currentIndex = 0
  /\ userAnswers = <<>>
  /\ isFinished = FALSE
  /\ startTime = NoTime
  /\ isLoading = FALSE
  /\ showExplanation = FALSE
  /\ finalResult = NoResult
  /\ isAnalyzing = FALSE
  /\ pending = EmptyBag
  /\ fetches = 0
  /\ failedLoad = <<>>

\* -------------------------------------------------------------- startExam
StartExam(setNumber) ==
  /\ Screen = "select"
  /\ CanIssue
  /\ isLoading' = TRUE
  /\ Issue(Request("start", setNumber, 0, BATCH_SIZE, 0, NoResult))
  /\ UNCHANGED <<examState, showExplanation, finalResult, isAnalyzing, failedLoad>>

StartExamFailed(r) ==
  /\ BagIn(r, pending) /\ r.kind = "start"
  /\ Settle(r)
  /\ isLoading' = FALSE
  /\ UNCHANGED <<examState, showExplanation, finalResult, isAnalyzing, failedLoad>>

StartExamLoaded(r, response) ==
  /\ BagIn(r, pending) /\ r.kind = "start"
  /\ response.kind # "reject"
  /\ Settle(r)
  /\ LET initialQuestions == generateQuestions(response) IN
       /\ currentSet' = r.set
       /\ questions' = initialQuestions
       /\ currentIndex' = 0
       /\ userAnswers' = <<>>
       /\ isFinished' = FALSE
       /\ startTime' = DateNow
  /\ isLoading' = FALSE
  /\ failedLoad' = <<>>
  /\ UNCHANGED <<showExplanation, finalResult, isAnalyzing>>

\* ----------------------------------------------------------- handleAnswer
recordAnswer(answers, id, answerKey) ==
  [i \in DOMAIN answers \cup {id} |-> IF i = id THEN answerKey ELSE answers[i]]

HandleAnswer(answerKey) ==
  /\ Screen = "exam"
  /\ currentQuestionDefined
  /\ ~showExplanation
  /\ userAnswers' = recordAnswer(userAnswers, currentQuestion.id, answerKey)
  /\ showExplanation' = TRUE
  /\ UNCHANGED <<currentSet, questions, currentIndex, isFinished, startTime,
                 isLoading, finalResult, isAnalyzing, envState>>

\* ------------------------------------------------------------- finishExam
FinishExam ==
  /\ CanIssue
  /\ isAnalyzing' = TRUE
  /\ Issue(Request("analysis", currentSet, 0, 0, 0, result(questions, userAnswers)))
  /\ UNCHANGED <<examState, isLoading, showExplanation, finalResult, failedLoad>>

FinishExamFailed(r) ==
  /\ BagIn(r, pending) /\ r.kind = "analysis"
  /\ Settle(r)
  /\ isAnalyzing' = FALSE
  /\ UNCHANGED <<examState, isLoading, showExplanation, finalResult, failedLoad>>

FinishExamAnalyzed(r, response) ==
  /\ BagIn(r, pending) /\ r.kind = "analysis"
  /\ response.kind # "reject"
  /\ Settle(r)
  /\ finalResult' = <<[score |-> r.result.score,
                       totalQuestions |-> r.result.totalQuestions,
                       domainBreakdown |-> r.result.domainBreakdown,
                       aiAnalysis |-> generateFinalAnalysis(response)]>>
  /\ isFinished' = TRUE
  /\ isAnalyzing' = FALSE
  /\ UNCHANGED <<currentSet, questions, currentIndex, userAnswers, startTime,
                 isLoading, showExplanation, failedLoad>>

\* ----------------------------------------------------------- nextQuestion
\* the arguments of the follow-up generateQuestions call
NextBatchRequest ==
  Request("next", currentSet, Len(questions),
          Min(BATCH_SIZE, QUESTIONS_PER_SET - Len(questions)),
          currentIndex + 1, NoResult)

\* the batch put in front of the loaded questions
appendQuestions_Prepend(prev, nextBatch) == nextBatch \o prev
appendQuestions(prev, nextBatch) == prev \o nextBatch

NextQuestionFinish ==
  /\ isLastQuestion
  /\ FinishExam

NextQuestionFetch ==
  /\ ~isLastQuestion
  /\ currentIndex + 1 >= Len(questions)
  /\ CanIssue
  /\ isLoading' = TRUE
  /\ Issue([NextBatchRequest EXCEPT !.retryOf = failedLoad])
  /\ failedLoad' = <<>>
  /\ UNCHANGED <<examState, showExplanation, finalResult, isAnalyzing>>

NextQuestionAdvance ==
  /\ ~isLastQuestion
  /\ currentIndex + 1 < Len(questions)
  /\ currentIndex' = currentIndex + 1
  /\ showExplanation' = FALSE
  /\ failedLoad' = <<>>
  /\ UNCHANGED <<currentSet, questions, userAnswers, isFinished, startTime,
                 isLoading, finalResult, isAnalyzing, pending, fetches>>

NextQuestion ==
  /\ Screen = "exam"
  /\ currentQuestionDefined
  /\ showExplanation
  /\ \/ NextQuestionFinish
     \/ NextQuestionFetch
     \/ NextQuestionAdvance

NextQuestionFailed(r) ==
  /\ BagIn(r, pending) /\ r.kind = "next"
  /\ Settle(r)
  /\ isLoading' = FALSE
  /\ showExplanation' = FALSE
  /\ failedLoad' = IF r.set = currentSet /\ r.nextIndex = currentIndex + 1
                   THEN <<r.set, r.offset, r.count>> ELSE failedLoad
  /\ UNCHANGED <<examState, finalResult, isAnalyzing>>

NextQuestionLoaded(r, response) ==
  /\ BagIn(r, pending) /\ r.kind = "next"
  /\ response.kind # "reject"
  /\ Settle(r)
  /\ LET nextBatch == generateQuestions(response) IN
       /\ questions' = appendQuestions(questions, nextBatch)
       /\ currentIndex' = r.nextIndex
  /\ isLoading' = FALSE
  /\ showExplanation' = FALSE
  /\ failedLoad' = <<>>
  /\ UNCHANGED <<currentSet, userAnswers, isFinished, startTime,
                 finalResult, isAnalyzing>>

\* -------------------------------------------------------------- resetExam
ResetExam ==
  /\ Screen \in {"exam", "result"}
  /\ currentSet' = NoSet
  /\ questions' = <<>>
  /\ currentIndex' = 0
  /\ userAnswers' = <<>>
  /\ isFinished' = FALSE
  /\ startTime' = NoTime
  /\ finalResult' = NoResult
  /\ showExplanation' = FALSE
  /\ failedLoad' = <<>>
  /\ UNCHANGED <<isLoading, isAnalyzing, pending, fetches>>

\* ------------------------------------------------------------------- Next
Requests == BagToSet(pending)

Next ==
  \/ \E setNumber \in 1..MaxSet : StartExam(setNumber)
  \/ \E r \in Requests : StartExamFailed(r)
  \/ \E r \in Requests : \E response \in QuestionResponses(r.count, 1) : StartExamLoaded(r, response)
  \/ \E answerKey \in Keys : HandleAnswer(answerKey)
  \/ NextQuestion
  \/ \E r \in Requests : NextQuestionFailed(r)
  \/ \E r \in Requests : \E response \in QuestionResponses(r.count, Len(questions) + 1) : NextQuestionLoaded(r, response)
  \/ \E r \in Requests : FinishExamFailed(r)
  \/ \E r \in Requests : \E response \in AnalysisResponses : FinishExamAnalyzed(r, response)
  \/ ResetExam

Spec == Init /\ [][Next]_vars

TypeOK ==
  /\ currentSet \in 0..MaxSet
  /\ currentIndex \in Nat
  /\ isFinished \in BOOLEAN /\ isLoading \in BOOLEAN
  /\ showExplanation \in BOOLEAN /\ isAnalyzing \in BOOLEAN
  /\ Len(finalResult) <= 1

\* ================================================================= claims
RECURSIVE SumTotals(_, _)
SumTotals(breakdown, domains) ==
  IF domains = {} THEN 0
  ELSE LET d == CHOOSE x \in domains : TRUE
       IN breakdown[d].total + SumTotals(breakdown, domains \ {d})

\* number of generateQuestions calls that have not settled
OutstandingQuestionFetches ==
  BagCardinality([r \in {x \in Requests : x.kind # "analysis"} |-> pending[r]])

LoadedIds == {questions[i].id : i \in DOMAIN questions}

\* C1: within a session an answer that is recorded for a question id is never
\* changed by a later step (handleAnswer on the same question with another key).
C1_AnswerNeverChanges ==
  [][\A id \in DOMAIN userAnswers \cap DOMAIN userAnswers' :
       userAnswers'[id] = userAnswers[id]]_vars

\* C2: when generateFinalAnalysis rejects, finishExam still sets finalResult to
\* the computed score and domainBreakdown with the fallback text as aiAnalysis,
\* and marks the session finished.
C2_AnalysisFailureStillShowsResult ==
  [][\A r \in Requests :
       FinishExamFailed(r) =>
         /\ finalResult' # NoResult
         /\ finalResult'[1].score = r.result.score
         /\ finalResult'[1].domainBreakdown = r.result.domainBreakdown
         /\ finalResult'[1].aiAnalysis = AnalysisUnavailable
         /\ isFinished']_vars

\* C3: a follow-up load that throws leaves the loaded questions and the position
\* as they were and its handler returns; the retry of that advance asks for the
\* same (set, offset, count), and when the retry succeeds its batch is appended
\* directly after the loaded questions and the position moves forward by one.
C3_FailedLoadIsRetryable ==
  [][/\ \A r \in Requests :
          NextQuestionFailed(r) =>
            /\ questions' = questions
            /\ currentIndex' = currentIndex
            /\ ~isLoading'
     /\ NextQuestionFetch /\ failedLoad # <<>> =>
          failedLoad = <<NextBatchRequest.set, NextBatchRequest.offset, NextBatchRequest.count>>
     /\ \A r \in Requests :
          \A response \in QuestionResponses(r.count, Len(questions) + 1) :
            NextQuestionLoaded(r, response) /\ r.retryOf # <<>>
              /\ generateQuestions(response) # <<>> =>
              /\ questions' = questions \o generateQuestions(response)
              /\ currentIndex' = currentIndex + 1]_vars

\* C4: a follow-up batch whose response is empty or unparseable counts as a
\* failed load: questions, position and answers stay unchanged.
C4_MalformedBatchLeavesSession ==
  [][\A r \in Requests :
       \A response \in QuestionResponses(r.count, Len(questions) + 1) :
         NextQuestionLoaded(r, response) /\ response.kind \in {"empty", "unparseable"} =>
           /\ questions' = questions
           /\ currentIndex' = currentIndex
           /\ userAnswers' = userAnswers]_vars

\* C5: at most one generateQuestions call is outstanding at any time.
C5_OneOutstandingFetch == OutstandingQuestionFetches <= 1

\* C6: the position never exceeds the number of loaded questions, and every
\* answered question id is the id of a loaded question.
C6_PositionAndAnswersLoaded ==
  /\ currentIndex <= Len(questions)
  /\ DOMAIN userAnswers \subseteq LoadedIds

\* C7: after every error in an active session (a fetch that throws, a question
\* response that is empty or unparseable, a failed analysis) the application is
\* interactive again: the set selection or a result is shown, or the position
\* refers to a loaded question that can be answered or advanced from.
Interactive ==
  \/ Screen = "select"
  \/ Screen = "result"
  \/ Screen = "exam" /\ currentQuestionDefined

\* the settling of request r is one of the errors
ErrorSettles(r) ==
  \/ NextQuestionFailed(r)
  \/ FinishExamFailed(r)
  \/ \E kind \in {"empty", "unparseable"} :
       NextQuestionLoaded(r, [kind |-> kind, items |-> <<>>])

C7_ErrorsLeaveInteractiveState ==
  [][\A r \in Requests :
       currentSet # NoSet /\ Interactive /\ ErrorSettles(r) => Interactive']_vars

\* C8: a batch appended by nextQuestion never decreases the number of loaded
\* questions and keeps the earlier list as a prefix: the batch starts directly
\* after the last question loaded before.
C8_AppendKeepsPrefix ==
  [][\A r \in Requests :
       \A response \in QuestionResponses(r.count, Len(questions) + 1) :
         NextQuestionLoaded(r, response) =>
           /\ Len(questions') >= Len(questions)
           /\ SubSeq(questions', 1, Len(questions)) = questions
           /\ SubSeq(questions', Len(questions) + 1, Len(questions'))
                = generateQuestions(response)]_vars

\* a session whose list holds more than one batch: a batch was appended to a
\* non-empty list
C8_Witness ==
  /\ currentSet # NoSet
  /\ Len(questions) > BATCH_SIZE
  /\ currentIndex > 0

\* C9: the position stays within 0 .. QUESTIONS_PER_SET - 1, and nextQuestion at
\* the last position leaves the position alone and starts finishExam.
C9_AdvanceStopsAtLast ==
  /\ [](currentIndex \in 0..(QUESTIONS_PER_SET - 1))
  /\ [][NextQuestion /\ currentIndex = QUESTIONS_PER_SET - 1 =>
          currentIndex' = currentIndex /\ isAnalyzing']_vars

\* nextQuestion was invoked at the last position
C9_Witness ==
  /\ currentIndex = QUESTIONS_PER_SET - 1
  /\ isAnalyzing
  /\ \E r \in Requests : r.kind = "analysis"

\* C10: every result finishExam computes has an entry for each of the four
\* domains and the totals of the domains add up to totalQuestions.
BreakdownCovers(res) ==
  /\ DOMAIN res.domainBreakdown = ExamDomain
  /\ SumTotals(res.domainBreakdown, ExamDomain) = res.totalQuestions

C10_BreakdownSumsToTotal ==
  /\ \A r \in Requests : r.kind = "analysis" => BreakdownCovers(r.result)
  /\ finalResult # NoResult => BreakdownCovers(finalResult[1])

\* a displayed result with a domain without questions and a wrong answer
C10_Witness ==
  /\ finalResult # NoResult
  /\ finalResult[1].totalQuestions = QUESTIONS_PER_SET
  /\ finalResult[1].score < 100
  /\ \E d \in ExamDomain : finalResult[1].domainBreakdown[d] = [correct |-> 0, total |-> 0]

\* C11: right after resetExam the session is in the pre-session condition (no
\* set, no questions, position 0, no answers, not finished, no start time, no
\* result), and it stays there until a startExam succeeds, also when a question
\* or analysis fetch issued before the reset settles after it.
PreSession ==
  /\ currentSet = NoSet
  /\ questions = <<>>
  /\ currentIndex = 0
  /\ userAnswers = <<>>
  /\ ~isFinished
  /\ startTime = NoTime
  /\ finalResult = NoResult

StartExamSucceeds ==
  \E r \in Requests :
    \E response \in QuestionResponses(r.count, 1) : StartExamLoaded(r, response)

C11_ResetStaysPreSession ==
  /\ [][ResetExam => PreSession']_vars
  /\ [][PreSession /\ ~StartExamSucceeds => PreSession']_vars

\* C12: with a provider that returns at most `count` questions per call, the
\* loaded list never holds more than QUESTIONS_PER_SET questions, and when
\* nextQuestion calls finishExam exactly QUESTIONS_PER_SET questions are loaded
\* and each of them has a recorded answer.
C12_LoadedCountAndAnswersAtFinish ==
  /\ [](Len(questions) <= QUESTIONS_PER_SET)
  /\ [][NextQuestion /\ currentIndex = QUESTIONS_PER_SET - 1 =>
          /\ Len(questions) = QUESTIONS_PER_SET
          /\ LoadedIds \subseteq DOMAIN userAnswers]_vars
====
